---- MODULE Spec2Model ----
(***************************************************************************)
(* Mailbox monitoring engine of monitor-imap-webhook:                      *)
(*   internal/imapclient (Client.IdleLoop, handleNewMessages, Exec, drain, *)
(*   status, reset, Connect, Close, BeginProcess, EndProcess), the         *)
(*   consumer goroutine of cmd/monitor/main.go, parser.FetchAndParse,      *)
(*   parser.parseRaw and extractBody, webhook.BuildPayload and             *)
(*   Sender.SendWithRetry.                                                 *)
(* The IMAP server, the webhook endpoint, the network, the poll ticker,    *)
(* the clock and the termination signal are the environment.               *)
(***************************************************************************)
EXTENDS Integers, Sequences, FiniteSets, TLC

\* ---------------------------------------------------------------- bounds
MaxMsgs == 3            \* the mailbox grows up to this many messages
InitMessages == 1       \* messages in the mailbox when the process starts
MaxFaults == 1          \* environment faults (breaks, failed dials, timeouts, expunges)
MaxUpd == 1             \* unread notifications kept in the Updates channel
EventsCap == 1          \* capacity of the events channel (50 in main.go)
DrainTicks == 1         \* DrainTimeout counted in 100ms polls of drain()
MaxCalls == 3           \* calls of each counter method made by ClientApiSpec
RetryMax == 1           \* cfg.RetryMax: webhook retries after the first attempt
MaxParts == 2           \* MIME parts of a message handed to the parser

VARIABLES
    pc,          \* position of IdleLoop / handleNewMessages / drain
    site,        \* which branch of the select called status/handleNewMessages
    c,           \* cl.c: "nil" or "conn"
    closed,      \* cl.closed
    mu,          \* holder of cl.mu
    cmdMu,       \* holder of cl.cmdMu
    activeFetches, \* cl.activeFetches
    baseline,    \* IdleLoop's baseline
    newTotal,    \* handleNewMessages' newTotal
    ch,          \* handleNewMessages' ch: fetched UIDs not yet emitted
    backoff,     \* IdleLoop's backoff, in seconds
    drainLeft,   \* polls left before drain()'s deadline
    stopClosed,  \* the round's stop channel has been closed
    done,        \* the round's done channel: "empty", "nil" or "err"
    idle,        \* the IDLE goroutine: "none" or "running"
    keepalives,  \* keepalive goroutines whose stop channel is still open
    noop,        \* a keepalive is inside cl.c.Noop()
    abandoned,   \* operation bodies left running by an Exec that timed out
    updates,     \* the Updates channel of the session
    events,      \* the events channel
    cpc,         \* position of the consumer goroutine
    attempt,     \* the consumer's fetch attempt
    ctxDone,     \* the signal context is cancelled
    serverCount, \* messages in the mailbox on the server
    connBroken,  \* the connection of the session is dead
    faults,      \* environment faults so far
    resolved,    \* history: UIDs resolved by successful fetch-uids calls
    sent,        \* history: UIDs pushed onto the events channel
    cycleStart,  \* history: Len(sent) when the last fetch-uids succeeded
    begins,      \* history: calls of BeginProcess
    ends,        \* history: calls of EndProcess
    endsAtZero,  \* history: calls of EndProcess that found the counter at 0
    partial,     \* Connect's local c: "none", "dialed", "secured" or "authed"
    teardown,    \* history: what the last failed Connect did with its
                 \* connection: "none" (no dial yet), "logout" or "leak"
    opStats,     \* cl.opStats: Count and Errors of each operation name
    calls,       \* history: calls of Exec that have returned, by operation name
    logouts,     \* history: calls of cl.c.Logout() made by Close()
    sendAttempt, \* SendWithRetry's attempt
    resp,        \* what s.hc.Do returned to SendWithRetry: "none" (no request
                 \* in flight), "2xx" or "fail" (an error or another status)
    raw,         \* a fetched message: its MIME parts and the parser's config
    msg,         \* the *parser.Message of parseRaw: <<>> (nil) or <<m>>
    payload      \* the webhook.Payload handed to SendWithRetry: <<>> or <<p>>

vars == <<pc, site, c, closed, mu, cmdMu, activeFetches, baseline, newTotal, ch,
          backoff, drainLeft, stopClosed, done, idle, keepalives, noop,
          abandoned, updates, events, cpc, attempt, ctxDone, serverCount,
          connBroken, faults, resolved, sent,
          cycleStart, begins, ends, endsAtZero, partial, teardown, opStats,
          calls, logouts, sendAttempt, resp, raw, msg, payload>>

engineVars == <<pc, site, baseline, newTotal, ch, backoff, drainLeft>>
roundVars == <<stopClosed, done, idle, keepalives>>
consumerVars == <<cpc, attempt, sendAttempt, resp>>
envVars == <<ctxDone, serverCount, connBroken, faults>>
histVars == <<resolved, sent, cycleStart>>
counterVars == <<activeFetches, begins, ends, endsAtZero>>
lifeVars == <<closed, partial, teardown, logouts>>
execVars == <<cmdMu, opStats, calls>>
contentVars == <<raw, msg, payload>>

\* ------------------------------------------------------ program constants
maxFetchRetry == 2      \* main.go: retries of FetchAndParse after the first

\* the operation names passed to Exec (handleNewMessages, FetchAndParse)
Ops == {"fetch-uids", "fetch"}

\* ---------------------------------------------------------------- helpers
B2N(b) == IF b THEN 1 ELSE 0

\* the UID the server reports for sequence number seq (imap.FetchUid)
UidOf(seq) == 100 + seq

\* faulty variant: seq.AddRange(*baseline, newTotal), one position too early
FetchRangeFromBaseline(lo, hi) ==
    [i \in 1..(hi - lo + 2) |-> UidOf(lo - 2 + i)]

\* seq.AddRange(*baseline+1, newTotal) resolved by c.Fetch into ch
RECURSIVE FetchRange(_, _)
FetchRange(lo, hi) ==
    IF lo > hi THEN <<>> ELSE <<UidOf(lo)>> \o FetchRange(lo + 1, hi)

\* the last position of lo..hi the mailbox holds when the FETCH is served
Existing(hi, count) == IF count < hi THEN count ELSE hi

MailboxUpdate(n) == [kind |-> "mailbox", messages |-> n]
MessageUpdate == [kind |-> "message", messages |-> 0]

\* BeginProcess / EndProcess on the counter value
BeginProcess(n) == n + 1

\* faulty variant: EndProcess without its guard
EndProcessUnguarded(n) == n - 1

EndProcess(n) == IF n > 0 THEN n - 1 ELSE n

\* backoff after a failed Connect: doubled while below 30 seconds
NextBackoff(b) == IF b < 30 THEN b * 2 ELSE b

\* no message at hand
NoRaw == [parts |-> <<>>, SkipInlineImages |-> FALSE]

\* ------------------------------------------------- parser and payload
\* Texts are tokens: LongText stands for a text of more than 20000 bytes,
\* "<b>yo</b>" for HTML with text in it, "<br>" for HTML made of tags only.
LongText == "LONG"
TruncatedLongText == "LONG[:20000]...<truncated>"
limitTextBytes == 20000
FetchBodySize == 204800     \* cfg.FetchBodySize, the default

TextLen(t) ==
    CASE t = "" -> 0
      [] t = LongText -> limitTextBytes + 1
      [] t = TruncatedLongText -> limitTextBytes + 14
      [] OTHER -> 9

\* limitText: s[:20000] + "...<truncated>" beyond 20000 bytes
limitText(t) ==
    IF TextLen(t) > limitTextBytes THEN TruncatedLongText ELSE t

\* htmlToText: tags stripped, entities decoded, blanks collapsed and trimmed
htmlToText(t) ==
    CASE t = "<b>yo</b>" -> "yo"
      [] t = "<br>" -> ""
      [] OTHER -> t

\* the parts of a multipart message given to the parser: text parts ...
BodyParts ==
    [ct : {"text/plain"}, disposition : {""}, filename : {""},
     text : {"", "hi", LongText}]
    \cup [ct : {"text/html"}, disposition : {""}, filename : {""},
          text : {"", "<b>yo</b>", "<br>"}]

\* ... and leaves that carry a disposition, named or not
AttachmentParts ==
    [ct : {"application/pdf", "image/png"},
     disposition : {"attachment", "inline"},
     filename : {"", "a.pdf", "b.png"}, text : {""}]

RECURSIVE SeqsUpTo(_, _)
SeqsUpTo(S, n) ==
    IF n = 0 THEN {<<>>}
    ELSE LET shorter == SeqsUpTo(S, n - 1)
         IN  shorter \cup {Append(q, x) : q \in shorter, x \in S}

RawMessages ==
    [parts : SeqsUpTo(BodyParts \cup AttachmentParts, MaxParts),
     SkipInlineImages : BOOLEAN]

\* extractBody, the multipart loop: the first text/plain part read while plain
\* is empty, the first text/html part read while html is empty; then plain
\* if not empty, else html if not empty, else ""
RECURSIVE extractBody(_, _, _)
extractBody(parts, plain, html) ==
    IF parts = <<>> \/ (plain # "" /\ html # "")
    THEN IF plain # "" THEN limitText(plain)
         ELSE IF html # "" THEN limitText(html) ELSE ""
    ELSE LET p == Head(parts)
             plain2 == IF p.ct = "text/plain" /\ plain = "" THEN p.text ELSE plain
             html2 == IF p.ct = "text/html" /\ html = ""
                      THEN htmlToText(p.text) ELSE html
         IN  extractBody(Tail(parts), plain2, html2)

\* bs.MIMEType of a leaf
MIMEType(ct) == IF ct = "image/png" THEN "image"
                ELSE IF ct = "application/pdf" THEN "application" ELSE "text"

InSeq(x, q) == \E i \in 1..Len(q) : q[i] = x

\* parseRaw's walk over the leaves of the BodyStructure: the names of the
\* attachment and inline leaves, in order, each once
RECURSIVE walk(_, _, _)
walk(parts, skip, ordered) ==
    IF parts = <<>> THEN ordered
    ELSE LET p == Head(parts)
             taken == /\ p.disposition \in {"attachment", "inline"}
                      /\ ~(skip /\ p.disposition = "inline"
                                 /\ MIMEType(p.ct) = "image")
                      /\ p.filename # ""
                      /\ ~InSeq(p.filename, ordered)
         IN  walk(Tail(parts), skip,
                  IF taken THEN Append(ordered, p.filename) ELSE ordered)

\* parseRaw: the Message with its body and attachment fields
parseRaw(r) ==
    LET ordered == walk(r.parts, r.SkipInlineImages, <<>>)
    IN  [Body |-> extractBody(r.parts, "", ""),
         HasAttachments |-> Len(ordered) > 0,
         AttachmentNames |-> ordered]

\* main.go: base := webhook.Payload{...}; the attachment fields are copied
\* if msg.HasAttachments; AttachmentCount keeps its zero value
basePayload(m) ==
    [Body |-> m.Body,
     HasAttachments |-> m.HasAttachments,
     Attachments |-> IF m.HasAttachments THEN m.AttachmentNames ELSE <<>>,
     AttachmentCount |-> 0]

\* webhook.BuildPayload: a copy of base with the body cut at bodyLimit
BuildPayload(base, bodyLimit) ==
    [base EXCEPT !.Body = IF bodyLimit > 0 /\ TextLen(@) > bodyLimit
                          THEN TruncatedLongText ELSE @]

\* ---------------------------------------------------------------- Init
\* the process after construction, whatever message the parser is given
InitProcess ==
    /\ pc = "Top" /\ site = "connect"
    /\ c = "nil" /\ closed = FALSE
    /\ mu = "free" /\ cmdMu = "free"
    /\ activeFetches = 0
    /\ baseline = 0 /\ newTotal = 0 /\ ch = <<>>
    /\ backoff = 1 /\ drainLeft = 0
    /\ stopClosed = FALSE /\ done = "empty" /\ idle = "none"
    /\ keepalives = 0 /\ noop = FALSE /\ abandoned = 0
    /\ updates = <<>> /\ events = <<>>
    /\ cpc = "Recv" /\ attempt = 0
    /\ ctxDone = FALSE /\ serverCount = InitMessages
    /\ connBroken = FALSE /\ faults = 0
    /\ resolved = <<>> /\ sent = <<>> /\ cycleStart = 0
    /\ begins = 0 /\ ends = 0 /\ endsAtZero = 0
    /\ partial = "none" /\ teardown = "none"
    /\ opStats = [op \in Ops |-> [Count |-> 0, Errors |-> 0]]
    /\ calls = [op \in Ops |-> 0]
    /\ logouts = 0
    /\ sendAttempt = 0 /\ resp = "none"
    /\ msg = <<>> /\ payload = <<>>

Init == InitProcess /\ raw = NoRaw

\* ------------------------------------------------- operation statistics
\* updateStats(op, dur, err): st.Count++; if err != nil { st.Errors++ }
updateStats(op, failed) ==
    opStats' = [opStats EXCEPT ![op] = [Count |-> @.Count + 1,
                                        Errors |-> @.Errors + B2N(failed)]]

\* Exec(op) returns after cl.updateStats(op, dur, err); cl.cmdMu.Unlock()
ExecReturns(op, failed) ==
    /\ updateStats(op, failed)
    /\ calls' = [calls EXCEPT ![op] = @ + 1]
    /\ cmdMu' = "free"

\* faulty variant: the early return of Exec without cl.cmdMu.Unlock()
ExecNoConnectionKeepsLock(op) ==
    /\ calls' = [calls EXCEPT ![op] = @ + 1]
    /\ UNCHANGED <<cmdMu, opStats>>

\* Exec(op) finds cl.c == nil: cl.cmdMu.Unlock(); return "no connection"
ExecNoConnection(op) ==
    /\ calls' = [calls EXCEPT ![op] = @ + 1]
    /\ cmdMu' = "free"
    /\ UNCHANGED opStats

\* ------------------------------------------------- processing counter
\* a call of cl.BeginProcess()
DoBeginProcess ==
    /\ activeFetches' = BeginProcess(activeFetches)
    /\ begins' = begins + 1
    /\ UNCHANGED <<ends, endsAtZero>>

\* a call of cl.EndProcess()
DoEndProcess ==
    /\ activeFetches' = EndProcess(activeFetches)
    /\ ends' = ends + 1
    /\ endsAtZero' = IF activeFetches = 0 THEN endsAtZero + 1 ELSE endsAtZero
    /\ UNCHANGED begins

\* ------------------------------------------------- session primitives
\* faulty variant: reset() written like Close(), marking the engine closed
resetMarksClosed ==
    /\ mu = "free"
    /\ c' = "nil"
    /\ closed' = TRUE
    /\ UNCHANGED <<mu, partial, teardown, logouts>>

\* faulty variant: reset() reopens a closed engine
resetReopens ==
    /\ mu = "free"
    /\ c' = "nil"
    /\ closed' = FALSE
    /\ UNCHANGED <<mu, partial, teardown, logouts>>

\* reset(): under cl.mu, log out and forget the session; closed is untouched
reset ==
    /\ mu = "free"
    /\ c' = "nil"
    /\ UNCHANGED <<lifeVars, mu>>

\* close(stop): closing a closed channel panics; the round's keepalive exits
CloseStop(next) ==
    IF stopClosed
    THEN /\ pc' = "Panicked"
         /\ UNCHANGED <<stopClosed, keepalives>>
    ELSE /\ pc' = next
         /\ stopClosed' = TRUE
         /\ keepalives' = IF keepalives > 0 THEN keepalives - 1 ELSE 0

\* ------------------------------------------------------------ IdleLoop
\* for { if err := ctx.Err(); err != nil { return err }
LoopTop ==
    /\ pc = "Top"
    /\ pc' = IF ctxDone THEN "Stopped" ELSE "Connect"
    /\ UNCHANGED <<site, c, lifeVars, mu, execVars, counterVars, baseline, newTotal,
                   ch, backoff, drainLeft, roundVars, noop, abandoned, updates,
                   events, consumerVars, envVars, histVars, contentVars>>

\* faulty variant: Connect() without the check of cl.closed
ConnectIgnoringClosed ==
    /\ pc = "Connect"
    /\ mu = "free"
    /\ IF c # "nil"
       THEN /\ pc' = "Status" /\ site' = "connect" /\ backoff' = 1
            /\ UNCHANGED mu
       ELSE /\ pc' = "Dial" /\ mu' = "engine" /\ UNCHANGED <<site, backoff>>
    /\ UNCHANGED <<c, lifeVars, execVars, counterVars, baseline, newTotal, ch,
                   drainLeft, roundVars, noop, abandoned, updates, events,
                   consumerVars, envVars, histVars, contentVars>>

\* Connect(): lock cl.mu; closed -> error; already connected -> nil; else dial
Connect ==
    /\ pc = "Connect"
    /\ mu = "free"
    /\ IF closed
       THEN /\ pc' = "Backoff" /\ UNCHANGED <<mu, site, backoff>>
       ELSE IF c # "nil"
       THEN /\ pc' = "Status" /\ site' = "connect" /\ backoff' = 1
            /\ UNCHANGED mu
       ELSE /\ pc' = "Dial" /\ mu' = "engine" /\ UNCHANGED <<site, backoff>>
    /\ UNCHANGED <<c, lifeVars, execVars, counterVars, baseline, newTotal, ch,
                   drainLeft, roundVars, noop, abandoned, updates, events,
                   consumerVars, envVars, histVars, contentVars>>

\* what the phases of Connect leave alone (cl.mu stays locked by Connect)
connectFrame ==
    <<site, c, closed, mu, execVars, counterVars, baseline, newTotal, ch, backoff,
      drainLeft, roundVars, noop, abandoned, updates, events, consumerVars,
      envVars, histVars, contentVars, teardown, logouts>>

\* the dial succeeds: DialWithDialerTLS gives a secured connection (UseTLS),
\* DialWithDialer a plain one; the configuration is not fixed by the model,
\* every attempt may take any of the three paths
DialOk ==
    /\ pc = "Dial" /\ partial = "none"
    /\ \E p \in {"dialed", "secured"} : partial' = p
    /\ UNCHANGED <<pc, connectFrame>>

\* c.StartTLS succeeds (StartTLS without UseTLS)
StartTLSOk ==
    /\ pc = "Dial" /\ partial = "dialed"
    /\ partial' = "secured"
    /\ UNCHANGED <<pc, connectFrame>>

\* c.Login succeeds
LoginOk ==
    /\ pc = "Dial" /\ partial \in {"dialed", "secured"}
    /\ partial' = "authed"
    /\ UNCHANGED <<pc, connectFrame>>

\* c.Select succeeds: cl.c = c; back in IdleLoop, backoff = time.Second
ConnectOk ==
    /\ pc = "Dial" /\ partial = "authed"
    /\ c' = "conn" /\ connBroken' = FALSE
    /\ partial' = "none"
    /\ mu' = "free"
    /\ backoff' = 1
    /\ pc' = "Status" /\ site' = "connect"
    /\ UNCHANGED <<closed, teardown, logouts, execVars, counterVars, baseline, newTotal, ch,
                   drainLeft, roundVars, noop, abandoned, updates, events,
                   consumerVars, ctxDone, serverCount, faults, histVars, contentVars>>

\* faulty variant: a failed phase returns without c.Logout()
ConnectErrorWithoutLogout ==
    /\ pc = "Dial"
    /\ partial' = "none"
    /\ teardown' = IF partial = "none" THEN "none" ELSE "leak"
    /\ mu' = "free"
    /\ pc' = "Backoff"

\* the phase at hand fails: a connection dialed by this attempt is logged out
\* (c.Logout()), cl.c is not assigned, Connect returns the error
ConnectError ==
    /\ pc = "Dial"
    /\ partial' = "none"
    /\ teardown' = IF partial = "none" THEN "none" ELSE "logout"
    /\ mu' = "free"
    /\ pc' = "Backoff"

\* a phase of Connect fails (dial, StartTLS, Login or Select)
ConnectFail ==
    /\ faults < MaxFaults
    /\ faults' = faults + 1
    /\ ConnectError
    /\ UNCHANGED <<site, c, closed, logouts, execVars, counterVars, baseline, newTotal, ch,
                   backoff, drainLeft, roundVars, noop, abandoned, updates,
                   events, consumerVars, ctxDone, serverCount, connBroken,
                   histVars, contentVars>>

\* time.Sleep(backoff); if backoff < 30*time.Second { backoff *= 2 }; continue
Backoff ==
    /\ pc = "Backoff"
    /\ backoff' = NextBackoff(backoff)
    /\ pc' = "Top"
    /\ UNCHANGED <<site, c, lifeVars, mu, execVars, counterVars, baseline, newTotal,
                   ch, drainLeft, roundVars, noop, abandoned, updates, events,
                   consumerVars, envVars, histVars, contentVars>>

\* status(): lock cl.mu and send SELECT; a nil cl.c is dereferenced
StatusCall ==
    /\ pc = "Status"
    /\ mu = "free"
    /\ IF c = "nil"
       THEN pc' = "Panicked" /\ UNCHANGED mu
       ELSE pc' = "StatusWire" /\ mu' = "engine"
    /\ UNCHANGED <<site, c, lifeVars, execVars, counterVars, baseline, newTotal, ch,
                   backoff, drainLeft, roundVars, noop, abandoned, updates,
                   events, consumerVars, envVars, histVars, contentVars>>

\* faulty variant: a reconnect keeps the baseline of the session before it
StatusAfterConnectKeepsBaseline ==
    /\ pc = "StatusWire" /\ site = "connect"
    /\ IF connBroken
       THEN /\ c' = "nil" /\ pc' = "Top"
            /\ UNCHANGED <<baseline, updates>>
       ELSE /\ baseline' = IF baseline = 0 THEN serverCount ELSE baseline
            /\ updates' = <<>>
            /\ pc' = "IdleStart"
            /\ UNCHANGED c
    /\ mu' = "free"
    /\ UNCHANGED <<site, lifeVars, execVars, counterVars, newTotal, ch, backoff,
                   drainLeft, roundVars, noop, abandoned, events, consumerVars,
                   envVars, histVars, contentVars>>

\* status after Connect: error -> reset, continue; else baseline and a new
\* Updates channel
StatusAfterConnect ==
    /\ pc = "StatusWire" /\ site = "connect"
    /\ IF connBroken
       THEN /\ c' = "nil" /\ pc' = "Top"
            /\ UNCHANGED <<baseline, updates>>
       ELSE /\ baseline' = serverCount
            /\ updates' = <<>>
            /\ pc' = "IdleStart"
            /\ UNCHANGED c
    /\ mu' = "free"
    /\ UNCHANGED <<site, lifeVars, execVars, counterVars, newTotal, ch, backoff,
                   drainLeft, roundVars, noop, abandoned, events, consumerVars,
                   envVars, histVars, contentVars>>

\* faulty variant: an observed count below baseline becomes the baseline
StatusAfterStopFollowsCount ==
    /\ pc = "StatusWire" /\ site \in {"message", "tick"}
    /\ mu' = "free"
    /\ IF connBroken
       THEN /\ c' = "nil" /\ pc' = "Reconnect"
            /\ UNCHANGED <<newTotal, drainLeft, baseline>>
       ELSE /\ UNCHANGED c
            /\ IF serverCount > baseline
               THEN pc' = "Fetch" /\ newTotal' = serverCount /\ UNCHANGED baseline
               ELSE pc' = "IdleStart" /\ baseline' = serverCount
                    /\ UNCHANGED newTotal
            /\ UNCHANGED drainLeft
    /\ UNCHANGED <<site, lifeVars, execVars, counterVars, ch, backoff,
                   roundVars, noop, abandoned, updates, events, consumerVars,
                   envVars, histVars, contentVars>>

\* status after a MessageUpdate or on a poll tick
StatusAfterStop ==
    /\ pc = "StatusWire" /\ site \in {"message", "tick"}
    /\ mu' = "free"
    /\ IF connBroken
       THEN /\ c' = "nil" /\ pc' = "Reconnect"
            /\ UNCHANGED <<newTotal, drainLeft>>
       ELSE /\ UNCHANGED c
            /\ IF serverCount > baseline
               THEN pc' = "Fetch" /\ newTotal' = serverCount
               ELSE pc' = "IdleStart" /\ UNCHANGED newTotal
            /\ UNCHANGED drainLeft
    /\ UNCHANGED <<site, lifeVars, execVars, counterVars, baseline, ch, backoff,
                   roundVars, noop, abandoned, updates, events, consumerVars,
                   envVars, histVars, contentVars>>

\* IDLE_START: ctx check, Raw(), new stop/done, keepalive and IDLE goroutines
IdleStart ==
    /\ pc = "IdleStart"
    /\ IF ctxDone
       THEN /\ pc' = "Stopped"
            /\ UNCHANGED roundVars
       ELSE /\ mu = "free"
            /\ IF c = "nil"
               THEN pc' = "Panicked" /\ UNCHANGED roundVars
               ELSE /\ pc' = "Select"
                    /\ stopClosed' = FALSE /\ done' = "empty"
                    /\ idle' = "running"
                    /\ keepalives' = keepalives + 1
    /\ site' = "select"
    /\ UNCHANGED <<c, lifeVars, mu, execVars, counterVars, baseline, newTotal,
                   ch, backoff, drainLeft, noop, abandoned, updates, events,
                   consumerVars, envVars, histVars, contentVars>>

\* case <-ctx.Done(): close(stop); <-done; return ctx.Err()
SelectCtxDone ==
    /\ pc = "Select"
    /\ ctxDone
    /\ CloseStop("CancelAwait")
    /\ UNCHANGED <<site, c, lifeVars, mu, execVars, counterVars, baseline, newTotal,
                   ch, backoff, drainLeft, done, idle, noop, abandoned, updates,
                   events, consumerVars, envVars, histVars, contentVars>>

CancelAwait ==
    /\ pc = "CancelAwait"
    /\ done # "empty"
    /\ done' = "empty"
    /\ pc' = "Stopped"
    /\ UNCHANGED <<site, c, lifeVars, mu, execVars, counterVars, baseline, newTotal,
                   ch, backoff, drainLeft, stopClosed, idle, keepalives, noop,
                   abandoned, updates, events, consumerVars, envVars, histVars, contentVars>>

\* case err := <-done: error -> reset, sleep, goto RECONNECT; nil -> IDLE_START
SelectDone ==
    /\ pc = "Select"
    /\ done # "empty"
    /\ done' = "empty"
    /\ site' = "done"
    /\ IF done = "err"
       THEN reset /\ pc' = "Reconnect"
       ELSE pc' = "IdleStart" /\ UNCHANGED <<c, lifeVars, mu>>
    /\ UNCHANGED <<execVars, counterVars, baseline, newTotal, ch, backoff,
                   drainLeft, stopClosed, idle, keepalives, noop, abandoned,
                   updates, events, consumerVars, envVars, histVars, contentVars>>

\* faulty variant: every MailboxUpdate starts a detection cycle, whatever its
\* count
SelectMailboxUpdateOnAnyCount ==
    /\ pc = "Select"
    /\ updates # <<>>
    /\ Head(updates).kind = "mailbox"
    /\ updates' = Tail(updates)
    /\ newTotal' = Head(updates).messages
    /\ site' = "update"
    /\ pc' = "ExitIdle"
    /\ UNCHANGED <<c, lifeVars, mu, execVars, counterVars, baseline, ch, backoff,
                   drainLeft, roundVars, noop, abandoned, events, consumerVars,
                   envVars, histVars, contentVars>>

\* case upd := <-updates, a MailboxUpdate: growth -> handleNewMessages(stop, done)
SelectMailboxUpdate ==
    /\ pc = "Select"
    /\ updates # <<>>
    /\ Head(updates).kind = "mailbox"
    /\ updates' = Tail(updates)
    /\ IF Head(updates).messages > baseline
       THEN /\ newTotal' = Head(updates).messages
            /\ site' = "update"
            /\ pc' = "ExitIdle"
       ELSE UNCHANGED <<newTotal, site, pc>>
    /\ UNCHANGED <<c, lifeVars, mu, execVars, counterVars, baseline, ch, backoff,
                   drainLeft, roundVars, noop, abandoned, events, consumerVars,
                   envVars, histVars, contentVars>>

\* case upd := <-updates, a MessageUpdate: close(stop), then <-done
SelectMessageUpdate ==
    /\ pc = "Select"
    /\ updates # <<>>
    /\ Head(updates).kind = "message"
    /\ updates' = Tail(updates)
    /\ site' = "message"
    /\ CloseStop("AwaitDone")
    /\ UNCHANGED <<c, lifeVars, mu, execVars, counterVars, baseline, newTotal, ch,
                   backoff, drainLeft, done, idle, noop, abandoned, events,
                   consumerVars, envVars, histVars, contentVars>>

\* case <-tickerC(ticker): close(stop), then <-done
SelectTick ==
    /\ pc = "Select"
    /\ site' = "tick"
    /\ CloseStop("AwaitDone")
    /\ UNCHANGED <<c, lifeVars, mu, execVars, counterVars, baseline, newTotal, ch,
                   backoff, drainLeft, done, idle, noop, abandoned, updates,
                   events, consumerVars, envVars, histVars, contentVars>>

\* faulty variant: status() right after close(stop), without <-done
AwaitDoneWithoutWaiting ==
    /\ pc = "AwaitDone"
    /\ pc' = "Status"
    /\ UNCHANGED <<c, lifeVars, mu, done>>
    /\ UNCHANGED <<site, execVars, counterVars, baseline, newTotal, ch, backoff,
                   drainLeft, stopClosed, idle, keepalives, noop, abandoned,
                   updates, events, consumerVars, envVars, histVars, contentVars>>

\* if err := <-done; err != nil { reset; sleep; goto RECONNECT }; st := status()
AwaitDone ==
    /\ pc = "AwaitDone"
    /\ done # "empty"
    /\ done' = "empty"
    /\ IF done = "err"
       THEN reset /\ pc' = "Reconnect"
       ELSE pc' = "Status" /\ UNCHANGED <<c, lifeVars, mu>>
    /\ UNCHANGED <<site, execVars, counterVars, baseline, newTotal, ch, backoff,
                   drainLeft, stopClosed, idle, keepalives, noop, abandoned,
                   updates, events, consumerVars, envVars, histVars, contentVars>>

\* RECONNECT: time.Sleep(2 * time.Second), back to the top of the loop
Reconnect ==
    /\ pc = "Reconnect"
    /\ pc' = "Top"
    /\ UNCHANGED <<site, c, lifeVars, mu, execVars, counterVars, baseline, newTotal,
                   ch, backoff, drainLeft, roundVars, noop, abandoned, updates,
                   events, consumerVars, envVars, histVars, contentVars>>

\* --------------------------------------------------- handleNewMessages
\* exit IDLE if currently idling: ctx check, close(stop), then <-done
ExitIdle ==
    /\ pc = "ExitIdle"
    /\ IF ctxDone
       THEN pc' = "Select" /\ UNCHANGED <<stopClosed, keepalives>>
       ELSE CloseStop("ExitAwaitDone")
    /\ UNCHANGED <<site, c, lifeVars, mu, execVars, counterVars, baseline, newTotal,
                   ch, backoff, drainLeft, done, idle, noop, abandoned, updates,
                   events, consumerVars, envVars, histVars, contentVars>>

\* if err := <-done; err != nil { reset; sleep; return false }: the caller
\* continues its select loop
ExitAwaitDone ==
    /\ pc = "ExitAwaitDone"
    /\ done # "empty"
    /\ done' = "empty"
    /\ IF done = "err"
       THEN reset /\ pc' = "Select"
       ELSE pc' = "Fetch" /\ UNCHANGED <<c, lifeVars, mu>>
    /\ UNCHANGED <<site, execVars, counterVars, baseline, newTotal, ch, backoff,
                   drainLeft, stopClosed, idle, keepalives, noop, abandoned,
                   updates, events, consumerVars, envVars, histVars, contentVars>>

\* Exec("fetch-uids"): cl.cmdMu.Lock()
FetchExecLock ==
    /\ pc = "Fetch"
    /\ cmdMu = "free"
    /\ cmdMu' = "engine"
    /\ pc' = "FetchExecRead"
    /\ UNCHANGED <<opStats, calls>>
    /\ UNCHANGED <<site, c, lifeVars, mu, counterVars, baseline, newTotal, ch,
                   backoff, drainLeft, roundVars, noop, abandoned, updates,
                   events, consumerVars, envVars, histVars, contentVars>>

\* the fetch failed: logged; *baseline = newTotal; return true; drain
FetchFailed ==
    /\ baseline' = newTotal
    /\ pc' = "Drain"
    /\ drainLeft' = DrainTicks
    /\ UNCHANGED <<ch, resolved, cycleStart>>

\* Exec: read cl.c under cl.mu; nil -> "no connection"; else run fn
FetchExecRead ==
    /\ pc = "FetchExecRead"
    /\ mu = "free"
    /\ IF c = "nil"
       THEN ExecNoConnection("fetch-uids") /\ FetchFailed
       ELSE /\ pc' = "FetchExecWait"
            /\ UNCHANGED <<execVars, baseline, drainLeft, ch, resolved, cycleStart>>
    /\ UNCHANGED <<site, c, lifeVars, mu, counterVars, newTotal, backoff,
                   roundVars, noop, abandoned, updates, events, consumerVars,
                   envVars, sent, contentVars>>

\* faulty variant: the events are pushed from inside the operation, with
\* cl.cmdMu still held
FetchExecOkKeepsCmdMu ==
    /\ pc = "FetchExecWait"
    /\ ~connBroken
    /\ updateStats("fetch-uids", FALSE)
    /\ calls' = [calls EXCEPT !["fetch-uids"] = @ + 1]
    /\ UNCHANGED cmdMu
    /\ ch' = FetchRange(baseline + 1, Existing(newTotal, serverCount))
    /\ resolved' = resolved \o
                       FetchRange(baseline + 1, Existing(newTotal, serverCount))
    /\ cycleStart' = Len(sent)
    /\ pc' = "Emit"
    /\ UNCHANGED <<site, c, lifeVars, mu, counterVars, baseline, newTotal,
                   backoff, drainLeft, roundVars, noop, abandoned, updates,
                   events, consumerVars, envVars, sent, contentVars>>

\* Exec: case e := <-errCh with e = nil: ch holds the UIDs of the range
FetchExecOk ==
    /\ pc = "FetchExecWait"
    /\ ~connBroken
    /\ ExecReturns("fetch-uids", FALSE)
    /\ ch' = FetchRange(baseline + 1, Existing(newTotal, serverCount))
    /\ resolved' = resolved \o
                       FetchRange(baseline + 1, Existing(newTotal, serverCount))
    /\ cycleStart' = Len(sent)
    /\ pc' = "Emit"
    /\ UNCHANGED <<site, c, lifeVars, mu, counterVars, baseline, newTotal,
                   backoff, drainLeft, roundVars, noop, abandoned, updates,
                   events, consumerVars, envVars, sent, contentVars>>

\* Exec: case e := <-errCh with an error from the wire
FetchExecErr ==
    /\ pc = "FetchExecWait"
    /\ connBroken
    /\ ExecReturns("fetch-uids", TRUE)
    /\ FetchFailed
    /\ UNCHANGED <<site, c, lifeVars, mu, counterVars, newTotal, backoff,
                   roundVars, noop, abandoned, updates, events, consumerVars,
                   envVars, sent, contentVars>>

\* Exec: case <-ctx.Done(): cancelled or timed out; fn keeps running
FetchExecTimeout ==
    /\ pc = "FetchExecWait"
    /\ \/ ctxDone /\ UNCHANGED faults
       \/ ~ctxDone /\ faults < MaxFaults /\ faults' = faults + 1
    /\ abandoned' = abandoned + 1
    /\ ExecReturns("fetch-uids", TRUE)
    /\ FetchFailed
    /\ UNCHANGED <<site, c, lifeVars, mu, counterVars, newTotal, backoff,
                   roundVars, noop, updates, events, consumerVars, ctxDone,
                   serverCount, connBroken, sent, contentVars>>

\* faulty variant: the emit loop ends without *baseline = newTotal
EmitNextKeepsBaseline ==
    /\ pc = "Emit"
    /\ IF ch = <<>>
       THEN /\ pc' = "Drain"
            /\ drainLeft' = DrainTicks
            /\ UNCHANGED <<baseline, counterVars>>
       ELSE /\ DoBeginProcess
            /\ pc' = "Push"
            /\ UNCHANGED <<baseline, drainLeft>>
    /\ UNCHANGED <<site, c, lifeVars, mu, execVars, newTotal, ch, backoff, roundVars,
                   noop, abandoned, updates, events, consumerVars, envVars,
                   histVars, contentVars>>

\* for msg := range ch { cl.BeginProcess(); select {...} }; *baseline = newTotal
EmitNext ==
    /\ pc = "Emit"
    /\ IF ch = <<>>
       THEN /\ baseline' = newTotal
            /\ pc' = "Drain"
            /\ drainLeft' = DrainTicks
            /\ UNCHANGED counterVars
       ELSE /\ DoBeginProcess
            /\ pc' = "Push"
            /\ UNCHANGED <<baseline, drainLeft>>
    /\ UNCHANGED <<site, c, lifeVars, mu, execVars, newTotal, ch, backoff, roundVars,
                   noop, abandoned, updates, events, consumerVars, envVars,
                   histVars, contentVars>>

\* faulty variant: select with a default branch, dropping the event when full
PushEventOrDrop ==
    /\ pc = "Push"
    /\ IF Len(events) < EventsCap
       THEN /\ events' = Append(events, Head(ch))
            /\ sent' = Append(sent, Head(ch))
       ELSE UNCHANGED <<events, sent>>
    /\ ch' = Tail(ch)
    /\ pc' = "Emit"
    /\ UNCHANGED <<site, c, lifeVars, mu, execVars, counterVars, baseline, newTotal,
                   backoff, drainLeft, roundVars, noop, abandoned, updates,
                   consumerVars, envVars, resolved, cycleStart, contentVars>>

\* case events <- Event{UID: msg.Uid}: blocks while the channel is full
PushEvent ==
    /\ pc = "Push"
    /\ Len(events) < EventsCap
    /\ events' = Append(events, Head(ch))
    /\ sent' = Append(sent, Head(ch))
    /\ ch' = Tail(ch)
    /\ pc' = "Emit"
    /\ UNCHANGED <<site, c, lifeVars, mu, execVars, counterVars, baseline, newTotal,
                   backoff, drainLeft, roundVars, noop, abandoned, updates,
                   consumerVars, envVars, resolved, cycleStart, contentVars>>

\* case <-ctx.Done(): cl.EndProcess(); the message is not emitted
PushCancelled ==
    /\ pc = "Push"
    /\ ctxDone
    /\ DoEndProcess
    /\ ch' = Tail(ch)
    /\ pc' = "Emit"
    /\ UNCHANGED <<site, c, lifeVars, mu, execVars, baseline, newTotal, backoff,
                   drainLeft, roundVars, noop, abandoned, updates, events,
                   consumerVars, envVars, histVars, contentVars>>

\* ---------------------------------------------------------------- drain
\* faulty variant: drain() without its deadline, waiting for the count alone
drainWithoutDeadline ==
    /\ pc = "Drain"
    /\ IF activeFetches = 0 \/ ctxDone
       THEN pc' = "IdleStart" /\ drainLeft' = 0 /\ newTotal' = 0
       ELSE UNCHANGED <<pc, newTotal, drainLeft>>
    /\ UNCHANGED <<site, c, lifeVars, mu, execVars, counterVars, baseline,
                   ch, backoff, roundVars, noop, abandoned, updates, events,
                   consumerVars, envVars, histVars, contentVars>>

\* one iteration of drain()'s loop; returning leads to IDLE_START (the locals
\* of handleNewMessages and drain are gone by then)
drain ==
    /\ pc = "Drain"
    /\ IF activeFetches = 0 \/ drainLeft = 0 \/ ctxDone
       THEN pc' = "IdleStart" /\ drainLeft' = 0 /\ newTotal' = 0
       ELSE drainLeft' = drainLeft - 1 /\ UNCHANGED <<pc, newTotal>>
    /\ UNCHANGED <<site, c, lifeVars, mu, execVars, counterVars, baseline,
                   ch, backoff, roundVars, noop, abandoned, updates, events,
                   consumerVars, envVars, histVars, contentVars>>

\* ----------------------------------------------------- IDLE goroutine
\* idleClient.IdleWithFallback(stop, 0) returns; done <- err
IdleFinish ==
    /\ idle = "running"
    /\ stopClosed \/ connBroken
    /\ idle' = "none"
    /\ done' = IF connBroken THEN "err" ELSE "nil"
    /\ UNCHANGED <<engineVars, c, lifeVars, mu, execVars, counterVars, stopClosed,
                   keepalives, noop, abandoned, updates, events, consumerVars,
                   envVars, histVars, contentVars>>

\* ------------------------------------------------ keepalive goroutines
\* case <-time.After(25 * time.Minute): lock cl.mu; if cl.c != nil { Noop() }
KeepaliveNoop ==
    /\ keepalives > 0
    /\ ~ctxDone
    /\ mu = "free"
    /\ c # "nil"
    /\ mu' = "keepalive"
    /\ noop' = TRUE
    /\ UNCHANGED <<engineVars, c, lifeVars, execVars, counterVars, roundVars,
                   abandoned, updates, events, consumerVars, envVars, histVars, contentVars>>

KeepaliveNoopDone ==
    /\ noop
    /\ noop' = FALSE
    /\ mu' = "free"
    /\ UNCHANGED <<engineVars, c, lifeVars, execVars, counterVars, roundVars,
                   abandoned, updates, events, consumerVars, envVars, histVars, contentVars>>

\* ------------------------------------------------- abandoned operations
\* faulty variant: the late result of an abandoned operation is recorded too
AbandonedReturnsRecorded ==
    /\ abandoned > 0
    /\ abandoned' = abandoned - 1
    /\ \E op \in Ops : updateStats(op, FALSE)
    /\ UNCHANGED <<engineVars, c, lifeVars, mu, cmdMu, calls, counterVars,
                   roundVars, noop, updates, events, consumerVars, envVars,
                   histVars, contentVars>>

\* go func() { errCh <- fn(c) }() of a timed-out Exec returns at last
AbandonedReturns ==
    /\ abandoned > 0
    /\ abandoned' = abandoned - 1
    /\ UNCHANGED <<engineVars, c, lifeVars, mu, execVars, counterVars, roundVars,
                   noop, updates, events, consumerVars, envVars, histVars, contentVars>>

\* ------------------------------------------------- consumer (main.go)
\* for ev := range events
ConsumerRecv ==
    /\ cpc = "Recv"
    /\ events # <<>>
    /\ events' = Tail(events)
    /\ cpc' = "Fetch"
    /\ UNCHANGED <<engineVars, c, lifeVars, mu, execVars, counterVars, roundVars,
                   noop, abandoned, updates, attempt, sendAttempt, resp, envVars,
                   histVars, contentVars>>

\* FetchAndParse -> Exec("fetch"): cl.cmdMu.Lock()
ConsumerExecLock ==
    /\ cpc = "Fetch"
    /\ cmdMu = "free"
    /\ cmdMu' = "consumer"
    /\ cpc' = "ExecRead"
    /\ UNCHANGED <<opStats, calls>>
    /\ UNCHANGED <<engineVars, c, lifeVars, mu, counterVars, roundVars, noop,
                   abandoned, updates, events, attempt, sendAttempt, resp,
                   envVars, histVars, contentVars>>

\* error texts, as the words the pattern of the consumer is matched against
\* errors.New("no connection") of Exec
ErrNoConnection == <<"no", "connection">>

\* fmt.Errorf("op %s timeout or canceled: %w", op, ctx.Err()) of Exec
ErrTimeout(op) ==
    <<"op", op, "timeout", "or", "canceled:", "context", "deadline", "exceeded">>

\* what fn returns on a dead connection: fmt.Errorf("uid fetch: %w", err)
WireErrors ==
    { <<"uid", "fetch:", "imap:", "connection", "closed">>,
      <<"uid", "fetch:", "EOF">> }

\* faulty variant: the pattern matches "connection" as well
transientReWithConnection(text) ==
    \E i \in DOMAIN text :
        text[i] \in {"short write", "timeout", "temporarily", "reset", "closed",
                     "connection"}

\* transientRe.MatchString(perr.Error())
transientRe(text) ==
    \E i \in DOMAIN text :
        text[i] \in {"short write", "timeout", "temporarily", "reset", "closed"}

\* faulty variant: the failure path continues without cl.EndProcess()
ConsumerFailedWithoutEnd(transient) ==
    IF transient /\ attempt < maxFetchRetry
    THEN /\ attempt' = attempt + 1
         /\ cpc' = "Fetch"
         /\ UNCHANGED <<counterVars, sendAttempt, resp>>
    ELSE /\ cpc' = "Recv"
         /\ attempt' = 0
         /\ UNCHANGED <<counterVars, sendAttempt, resp>>

\* perr != nil: retry while transient and attempt < maxFetchRetry, else log,
\* EndProcess and go on with the next event
ConsumerFailed(transient) ==
    IF transient /\ attempt < maxFetchRetry
    THEN /\ attempt' = attempt + 1
         /\ cpc' = "Fetch"
         /\ UNCHANGED <<counterVars, sendAttempt, resp>>
    ELSE /\ DoEndProcess
         /\ cpc' = "Recv"
         /\ attempt' = 0
         /\ UNCHANGED <<sendAttempt, resp>>

\* Exec: read cl.c under cl.mu; nil -> "no connection"
ConsumerExecRead ==
    /\ cpc = "ExecRead"
    /\ mu = "free"
    /\ IF c = "nil"
       THEN ExecNoConnection("fetch") /\ ConsumerFailed(transientRe(ErrNoConnection))
       ELSE cpc' = "ExecWait" /\ UNCHANGED <<execVars, attempt, sendAttempt, resp, counterVars>>
    /\ UNCHANGED <<engineVars, c, lifeVars, mu, roundVars, noop, abandoned,
                   updates, events, envVars, histVars, contentVars>>

\* Exec returns nil: the message is parsed (perr == nil: break), the payload
\* is built and SendWithRetry starts with attempt := 0
ConsumerExecOk ==
    /\ cpc = "ExecWait"
    /\ ~connBroken
    /\ ExecReturns("fetch", FALSE)
    /\ cpc' = "Send"
    /\ attempt' = 0
    /\ sendAttempt' = 0
    /\ UNCHANGED <<engineVars, c, lifeVars, mu, counterVars, roundVars, noop,
                   abandoned, updates, events, resp, envVars, histVars,
                   contentVars>>

\* Exec returns the wire error of fn; its text may or may not match
ConsumerExecErr ==
    /\ cpc = "ExecWait"
    /\ connBroken
    /\ ExecReturns("fetch", TRUE)
    /\ \E perr \in WireErrors : ConsumerFailed(transientRe(perr))
    /\ UNCHANGED <<engineVars, c, lifeVars, mu, roundVars, noop, abandoned,
                   updates, events, envVars, histVars, contentVars>>

\* Exec: the default timeout expires ("... timeout or canceled": transient);
\* fn keeps running
ConsumerExecTimeout ==
    /\ cpc = "ExecWait"
    /\ faults < MaxFaults
    /\ faults' = faults + 1
    /\ abandoned' = abandoned + 1
    /\ ExecReturns("fetch", TRUE)
    /\ ConsumerFailed(transientRe(ErrTimeout("fetch")))
    /\ UNCHANGED <<engineVars, c, lifeVars, mu, roundVars, noop, updates, events,
                   ctxDone, serverCount, connBroken, histVars, contentVars>>

\* SendWithRetry: resp, err := s.hc.Do(req), answered by the endpoint
ConsumerPost ==
    /\ cpc = "Send"
    /\ \E r \in {"2xx", "fail"} : resp' = r
    /\ cpc' = "Posted"
    /\ UNCHANGED <<engineVars, c, lifeVars, mu, execVars, counterVars, roundVars,
                   noop, abandoned, updates, events, attempt, sendAttempt,
                   envVars, histVars, contentVars>>

\* faulty variant: the consumer forgets cl.EndProcess() after the webhook
SendReturnsWithoutEnd ==
    /\ UNCHANGED counterVars
    /\ cpc' = "Recv"
    /\ sendAttempt' = 0

\* SendWithRetry returns (nil or "webhook send failed after retries"): main
\* logs the outcome and calls cl.EndProcess(); next event
SendReturns ==
    /\ DoEndProcess
    /\ cpc' = "Recv"
    /\ sendAttempt' = 0

\* faulty variant: the loop of SendWithRetry breaks one attempt too late
SendAgainPastRetryMax ==
    IF sendAttempt = RetryMax + 1
    THEN SendReturns
    ELSE /\ sendAttempt' = sendAttempt + 1
         /\ cpc' = "Send"
         /\ UNCHANGED counterVars

\* if attempt == s.cfg.RetryMax { break }; time.Sleep(backoff); attempt++
SendAgain ==
    IF sendAttempt = RetryMax
    THEN SendReturns
    ELSE /\ sendAttempt' = sendAttempt + 1
         /\ cpc' = "Send"
         /\ UNCHANGED counterVars

\* SendWithRetry after s.hc.Do: a 2xx answer returns nil, anything else is
\* retried until attempt == RetryMax
ConsumerSend ==
    /\ cpc = "Posted"
    /\ resp' = "none"
    /\ IF resp = "2xx" THEN SendReturns ELSE SendAgain
    /\ UNCHANGED <<engineVars, c, lifeVars, mu, execVars, roundVars, noop, abandoned,
                   updates, events, attempt, envVars, histVars, contentVars>>

\* ----------------------------------------------------------- environment
\* the server notifies the session through c.Updates
Notify(upd) ==
    IF c = "conn" /\ ~connBroken /\ Len(updates) < MaxUpd
    THEN updates' = Append(updates, upd)
    ELSE UNCHANGED updates

\* a message arrives in the mailbox; the server may or may not push EXISTS
MailboxGrows ==
    /\ serverCount < MaxMsgs
    /\ serverCount' = serverCount + 1
    /\ \/ Notify(MailboxUpdate(serverCount + 1))
       \/ UNCHANGED updates
    /\ UNCHANGED <<engineVars, c, lifeVars, mu, execVars, counterVars, roundVars,
                   noop, abandoned, events, consumerVars, ctxDone, connBroken,
                   faults, histVars, contentVars>>

\* the server pushes a message-level notification (no growth)
MessageNotified ==
    /\ c = "conn" /\ ~connBroken /\ Len(updates) < MaxUpd
    /\ Notify(MessageUpdate)
    /\ UNCHANGED <<engineVars, c, lifeVars, mu, execVars, counterVars, roundVars,
                   noop, abandoned, events, consumerVars, envVars, histVars, contentVars>>

\* the connection of the session dies
ConnBreaks ==
    /\ c = "conn" /\ ~connBroken
    /\ faults < MaxFaults
    /\ faults' = faults + 1
    /\ connBroken' = TRUE
    /\ UNCHANGED <<engineVars, c, lifeVars, mu, execVars, counterVars, roundVars,
                   noop, abandoned, updates, events, consumerVars, ctxDone,
                   serverCount, histVars, contentVars>>

\* SIGINT/SIGTERM: ctx is cancelled; every keepalive goroutine returns
Cancel ==
    /\ ~ctxDone
    /\ ctxDone' = TRUE
    /\ keepalives' = 0
    /\ UNCHANGED <<engineVars, c, lifeVars, mu, execVars, counterVars, stopClosed,
                   done, idle, noop, abandoned, updates, events, consumerVars,
                   serverCount, connBroken, faults, histVars, contentVars>>

\* Close(): under cl.mu, closed = true; if cl.c != nil { return cl.c.Logout() }
DoClose ==
    /\ mu = "free"
    /\ closed' = TRUE
    /\ IF c # "nil"
       THEN logouts' = logouts + 1 /\ connBroken' = TRUE
       ELSE UNCHANGED <<logouts, connBroken>>

\* main: <-ctx.Done(); cl.Close(), once
Close ==
    /\ ctxDone
    /\ ~closed
    /\ DoClose
    /\ UNCHANGED <<partial, teardown, engineVars, c, mu, execVars, counterVars, roundVars, noop,
                   abandoned, updates, events, consumerVars, ctxDone,
                   serverCount, faults, histVars, contentVars>>

\* ------------------------------------------------------------------ Next
Engine ==
    \/ LoopTop \/ Connect \/ DialOk \/ StartTLSOk \/ LoginOk \/ ConnectOk
    \/ ConnectFail \/ Backoff
    \/ StatusCall \/ StatusAfterConnect \/ StatusAfterStop
    \/ IdleStart \/ SelectCtxDone \/ CancelAwait \/ SelectDone
    \/ SelectMailboxUpdate \/ SelectMessageUpdate \/ SelectTick
    \/ AwaitDone \/ Reconnect
    \/ ExitIdle \/ ExitAwaitDone
    \/ FetchExecLock \/ FetchExecRead \/ FetchExecOk \/ FetchExecErr
    \/ FetchExecTimeout \/ EmitNext \/ PushEvent \/ PushCancelled
    \/ drain

Goroutines ==
    \/ IdleFinish \/ KeepaliveNoop \/ KeepaliveNoopDone \/ AbandonedReturns

Consumer ==
    \/ ConsumerRecv \/ ConsumerExecLock \/ ConsumerExecRead \/ ConsumerExecOk
    \/ ConsumerExecErr \/ ConsumerExecTimeout \/ ConsumerPost \/ ConsumerSend

Environment ==
    \/ MailboxGrows \/ MessageNotified \/ ConnBreaks \/ Cancel \/ Close

Next == Engine \/ Goroutines \/ Consumer \/ Environment

Spec == Init /\ [][Next]_vars

\* the Go scheduler runs every runnable goroutine, sync.Mutex does not starve a
\* waiter, IdleWithFallback returns once stop is closed or the connection is
\* dead, a NOOP returns, and every step of the consumer is bounded (the
\* default timeout of Exec, the retry bounds of the fetch and of the webhook)
Fairness ==
    /\ SF_vars(Engine)
    /\ SF_vars(Consumer)
    /\ WF_vars(IdleFinish)
    /\ WF_vars(KeepaliveNoopDone)

FairSpec == Spec /\ Fairness

\* the same without any assumption on the consumer: it may stop for ever at
\* any point (a webhook that hangs, an event never marked complete)
EngineFairness ==
    /\ SF_vars(Engine)
    /\ WF_vars(IdleFinish)
    /\ WF_vars(KeepaliveNoopDone)

EngineFairSpec == Spec /\ EngineFairness

\* ---------------------------------------------- the Client driven directly
\* The methods of Client called in any order by arbitrary callers, instead of
\* by IdleLoop and the consumer.
apiCounterFrame ==
    <<pc, site, c, lifeVars, mu, execVars, baseline, newTotal, ch, backoff,
      drainLeft, roundVars, noop, abandoned, updates, events, consumerVars,
      envVars, histVars, contentVars>>

ApiBeginProcess ==
    /\ begins < MaxCalls
    /\ DoBeginProcess
    /\ UNCHANGED apiCounterFrame

ApiEndProcess ==
    /\ ends < MaxCalls
    /\ DoEndProcess
    /\ UNCHANGED apiCounterFrame

\* what a call or a return of the caller leaves alone
apiCallFrame ==
    <<site, c, lifeVars, mu, execVars, counterVars, baseline, newTotal, ch,
      backoff, drainLeft, roundVars, noop, abandoned, updates, events,
      consumerVars, envVars, histVars, contentVars>>

\* a caller calls cl.Connect(ctx) ...
ApiCallConnect ==
    /\ pc = "Top"
    /\ pc' = "Connect"
    /\ UNCHANGED apiCallFrame

\* ... and gets nil ("Status") or an error ("Backoff") back
ApiConnectReturns ==
    /\ pc \in {"Status", "Backoff"}
    /\ pc' = "Top"
    /\ UNCHANGED apiCallFrame

\* cl.reset(reason, err) called at any moment
ApiReset ==
    /\ reset
    /\ UNCHANGED <<engineVars, execVars, counterVars, roundVars, noop,
                   abandoned, updates, events, consumerVars, envVars, histVars, contentVars>>

\* cl.Close() called at any moment, any number of times
ApiClose ==
    /\ logouts < MaxCalls
    /\ DoClose
    /\ UNCHANGED <<partial, teardown, engineVars, c, mu, execVars, counterVars,
                   roundVars, noop, abandoned, updates, events, consumerVars,
                   ctxDone, serverCount, faults, histVars, contentVars>>

\* a caller calls cl.status() ...
ApiCallStatus ==
    /\ pc = "Top"
    /\ pc' = "Status"
    /\ UNCHANGED apiCallFrame

\* ... and cl.c.Select returns: an error on a dead connection, else the
\* mailbox status, whose Messages the caller keeps (in baseline)
ApiStatusReturns ==
    /\ pc = "StatusWire"
    /\ mu' = "free"
    /\ baseline' = IF connBroken THEN baseline ELSE serverCount
    /\ pc' = "Top"
    /\ UNCHANGED <<site, c, lifeVars, execVars, counterVars, newTotal, ch,
                   backoff, drainLeft, roundVars, noop, abandoned, updates,
                   events, consumerVars, envVars, histVars, contentVars>>

ClientApiNext ==
    \/ ApiBeginProcess \/ ApiEndProcess
    \/ ApiCallConnect \/ Connect \/ DialOk \/ StartTLSOk \/ LoginOk
    \/ ConnectOk \/ ConnectFail \/ ApiConnectReturns
    \/ ApiCallStatus \/ StatusCall \/ ApiStatusReturns
    \/ ApiReset \/ ApiClose \/ ConnBreaks \/ MailboxGrows \/ Cancel \/ Close

ClientApiSpec == Init /\ [][ClientApiNext]_vars

\* ------------------------------------------- one message, parsed and sent
\* parser.parseRaw and the payload of the consumer applied to any message of
\* RawMessages: what Exec("fetch") hands to the parser is the input
ContentInit == InitProcess /\ raw \in RawMessages

contentFrame ==
    <<engineVars, c, lifeVars, mu, execVars, counterVars, roundVars, noop,
      abandoned, updates, events, consumerVars, envVars, histVars>>

\* p, perr := parseRaw(raw, msg, cfg)
ParseRaw ==
    /\ msg = <<>>
    /\ msg' = <<parseRaw(raw)>>
    /\ UNCHANGED <<contentFrame, raw, payload>>

\* base := webhook.Payload{...}; payload := webhook.BuildPayload(&base, ...)
MakePayload ==
    /\ msg # <<>> /\ payload = <<>>
    /\ payload' = <<BuildPayload(basePayload(msg[1]), FetchBodySize)>>
    /\ UNCHANGED <<contentFrame, raw, msg>>

ContentNext == ParseRaw \/ MakePayload

ContentSpec == ContentInit /\ [][ContentNext]_vars

\* ------------------------------------------------------ a server outage
\* IdleLoop while the server cannot be reached: every dial is refused, for as
\* long as the outage lasts (Spec bounds the failures by MaxFaults)
DialRefused ==
    /\ partial = "none"
    /\ ConnectError
    /\ UNCHANGED <<site, c, closed, logouts, execVars, counterVars, baseline, newTotal, ch,
                   backoff, drainLeft, roundVars, noop, abandoned, updates,
                   events, consumerVars, envVars, histVars, contentVars>>

OutageNext ==
    \/ LoopTop \/ Connect \/ DialRefused \/ Backoff
    \/ MailboxGrows \/ Cancel \/ Close

OutageSpec == Init /\ [][OutageNext]_vars

\* ------------------------------------------------- a mailbox that shrinks
\* the last message of the mailbox is expunged by another client (an event
\* of the environment, counted with its faults); the server may or may not
\* push the new count
MailboxShrinks ==
    /\ serverCount > 0
    /\ faults < MaxFaults
    /\ faults' = faults + 1
    /\ serverCount' = serverCount - 1
    /\ \/ Notify(MailboxUpdate(serverCount - 1))
       \/ UNCHANGED updates
    /\ UNCHANGED <<engineVars, c, lifeVars, mu, execVars, counterVars, roundVars,
                   noop, abandoned, events, consumerVars, ctxDone, connBroken,
                   histVars, contentVars>>

ShrinkNext == Next \/ MailboxShrinks

ShrinkSpec == Init /\ [][ShrinkNext]_vars

\* ============================================================== properties
\* operation bodies handed to Exec that are running (fn(c) of Exec)
RunningBodies ==
    B2N(pc = "FetchExecWait") + B2N(cpc = "ExecWait") + abandoned

\* protocol operations outstanding on the connection: the IDLE command, the
\* SELECT of status(), the NOOP of a keepalive and the bodies run by Exec
Outstanding ==
    B2N(idle = "running") + B2N(pc = "StatusWire") + B2N(noop) + RunningBodies

\* the identifiers of the range (from, to], in ascending order
RangeIds(from, to) == [i \in 1..(to - from) |-> UidOf(from + i)]

\* the events pushed onto the channel since the last successful fetch-uids
CycleSent == SubSeq(sent, cycleStart + 1, Len(sent))

\* the engine is in the select loop of a running long-poll round
LongPolling == pc = "Select" /\ ~stopClosed

\* C1: at most one protocol operation (long-poll or command) is outstanding
\* on the connection in every reachable state.
C1_OneOutstandingOperation == Outstanding <= 1

\* C2: at most one operation body passed to Exec is running at any instant,
\* whatever the outcome of earlier calls.
C2_ExecBodiesNeverOverlap == RunningBodies <= 1

\* C3: a failed fetch-uids leaves baseline unchanged (the step that ends a
\* failed fetch does not change baseline).
C3_FailedFetchKeepsBaseline ==
    [][(pc \in {"FetchExecRead", "FetchExecWait"} /\ pc' = "Drain")
          => baseline' = baseline]_vars

C5_BaselineAdvancesAfterPushes ==
    [][(baseline' # baseline /\ pc # "StatusWire" /\ ~ctxDone)
          => CycleSent = RangeIds(baseline, baseline')]_vars

IsSuffix(s, t) ==
    /\ Len(s) <= Len(t)
    /\ s = SubSeq(t, Len(t) - Len(s) + 1, Len(t))

\* the channel is within its capacity and holds pushed events in emission
\* order; without cancellation every resolved identifier is either pushed
\* already or still waiting in the blocked producer, in order
NoDrop ==
    /\ Len(events) <= EventsCap
    /\ IsSuffix(events, sent)
    /\ ~ctxDone => resolved = sent \o ch

C7_Witness ==
    /\ pc = "Reconnect" /\ site = "done" /\ activeFetches = 0
    /\ c = "nil" /\ ~closed /\ ~ctxDone

\* C7: a long-poll that ends with an error while nothing is in flight makes the
\* engine reset the session (absent, not closed) and go to RECONNECT; from
\* there, once connects succeed again, it re-enters the long-poll (unless
\* cancelled meanwhile).
C7_IdleErrorReconnects ==
    /\ [][(pc = "Select" /\ done = "err" /\ done' = "empty")
             => (c' = "nil" /\ closed' = closed /\ pc' = "Reconnect")]_vars
    /\ (pc = "Reconnect" /\ site = "done" /\ activeFetches = 0)
          ~> (LongPolling \/ ctxDone)

\* C8: every step in which the engine finds the long-poll terminated with an
\* error (in the select, or while stopping it for a growth notification, a
\* message notification or a poll tick) takes it to RECONNECT.
C8_EveryIdleErrorReconnects ==
    [][(done = "err" /\ done' = "empty" /\ ~ctxDone) => pc' = "Reconnect"]_vars

\* C9: the engine loop ends (returns or panics) only after cancellation.
C9_StopsOnlyOnCancellation ==
    pc \in {"Stopped", "Panicked"} => ctxDone

\* C10 (finite form): after cancellation the engine does not crash on its way
\* to STOPPED, and it has awaited the long-poll's termination when it stops.
C10_CancelledEngineStops ==
    [][ctxDone => /\ pc # "Panicked" => pc' # "Panicked"
                  /\ pc' = "Stopped" => idle' = "none"]_vars

\* C11: drain always terminates, whatever the consumer does: every poll that
\* stays in drain uses up one unit of the drain timeout, the poll at the
\* deadline returns although the count is still positive, and from drain the
\* engine re-enters the long-poll (unless cancelled meanwhile).
C11_DrainTerminates ==
    /\ [](pc = "Drain" => drainLeft \in 0..DrainTicks)
    /\ [](pc = "Drain" => ENABLED drain)
    /\ [][(pc = "Drain" /\ pc' = "Drain") => drainLeft' <= drainLeft]_vars
    /\ [][(pc = "Drain" /\ drainLeft = 0 /\ engineVars' # engineVars)
             => pc' = "IdleStart"]_vars
    /\ (pc = "Drain") ~> (LongPolling \/ ctxDone)

C11_Witness ==
    /\ pc = "Drain" /\ drainLeft = 0 /\ activeFetches > 0 /\ ~ctxDone
    /\ cpc # "Recv"

\* C12 as stated: the counter is never negative, and after as many calls of
\* BeginProcess as of EndProcess, in any order, it is 0.
C12_EqualCallsReachZero ==
    /\ activeFetches >= 0
    /\ begins = ends => activeFetches = 0

\* C12 amended: the counter is never negative, a call of EndProcess at 0
\* leaves it at 0, and it equals the calls of BeginProcess minus the calls of
\* EndProcess that found it positive: it is 0 after N and N calls when no
\* EndProcess was called at 0.
C12_CounterNeverNegative ==
    /\ [](activeFetches >= 0)
    /\ [](activeFetches = begins - (ends - endsAtZero))
    /\ []((begins = ends /\ endsAtZero = 0) => activeFetches = 0)
    /\ [][(ends' = ends + 1 /\ activeFetches = 0) => activeFetches' = 0]_vars

C12_Witness ==
    /\ begins >= 2 /\ ends = begins + 1 /\ endsAtZero = 1
    /\ activeFetches = 0

\* events received by the consumer and not yet marked complete
Processing == B2N(cpc # "Recv")

\* C13 as stated: in every reachable state the counter equals the events in
\* the channel plus the events the consumer is processing.
C13_CountIsChannelPlusProcessing ==
    activeFetches = Len(events) + Processing

\* C13 amended: the same, plus the one identifier the engine has counted
\* (BeginProcess) and is pushing, or about to give up on cancellation.
C13_CountIsInFlight ==
    /\ activeFetches = Len(events) + Processing + B2N(pc = "Push")
    /\ endsAtZero = 0

C13_Witness ==
    /\ pc = "Push" /\ ~ctxDone /\ cpc = "Send"
    /\ activeFetches = Len(events) + 2

\* C14: the sleep after a failed connect is 1, 2, 4, 8, 16 and then 30 units:
\* doubled from 1 and never above 30.
C14_BackoffDoublesUpTo30 ==
    pc = "Backoff" => backoff \in {1, 2, 4, 8, 16, 30}

\* a step in which the Exec call of handleNewMessages / of the consumer returns
EngineExecReturns ==
    /\ pc \in {"FetchExecRead", "FetchExecWait"}
    /\ pc' \notin {"FetchExecRead", "FetchExecWait"}

ConsumerExecReturns ==
    /\ cpc \in {"ExecRead", "ExecWait"}
    /\ cpc' \notin {"ExecRead", "ExecWait"}

\* the statistics of op after the step are those before it plus one call,
\* and plus one error exactly when failed
Recorded(op, failed) ==
    /\ opStats'[op].Count = opStats[op].Count + 1
    /\ opStats'[op].Errors = opStats[op].Errors + B2N(failed)

\* C15: every call of Exec that returns is recorded: the count of its
\* operation name grows by exactly one, and its error count by one exactly
\* when the call returned an error (so the recorded calls are all the calls).
C15_EveryCallIsRecorded ==
    /\ [](\A op \in Ops : opStats[op].Count = calls[op])
    /\ [][/\ EngineExecReturns => Recorded("fetch-uids", pc' = "Drain")
          /\ ConsumerExecReturns => Recorded("fetch", cpc' # "Send")]_vars

\* everything but the count of abandoned operation bodies
exceptAbandoned ==
    <<engineVars, c, lifeVars, mu, execVars, counterVars, roundVars, noop,
      updates, events, consumerVars, envVars, histVars, contentVars>>

\* C16: when the timeout of an Exec call expires first, the call returns an
\* error and is recorded once as failed, its operation body is left running;
\* when that body returns at last nothing but its own end happens (no second
\* record, no change of what the caller got), and it can always return.
C16_TimedOutOperationIsAbandoned ==
    /\ [][abandoned' > abandoned =>
             /\ abandoned' = abandoned + 1
             /\ \/ EngineExecReturns /\ Recorded("fetch-uids", TRUE)
                                     /\ pc' = "Drain"
                \/ ConsumerExecReturns /\ Recorded("fetch", TRUE)
                                       /\ cpc' # "Send"]_vars
    /\ [][abandoned' < abandoned =>
             /\ abandoned' = abandoned - 1
             /\ UNCHANGED exceptAbandoned]_vars
    /\ [](abandoned > 0 => ENABLED AbandonedReturns)

C16_Witness ==
    /\ abandoned = 1 /\ cpc = "Fetch" /\ attempt = 1 /\ cmdMu = "free"
    /\ opStats["fetch"] = [Count |-> 1, Errors |-> 1]
    /\ ~connBroken

\* cl.cmdMu is held exactly by the caller that is inside Exec
CmdMuHeldInsideExec ==
    /\ cmdMu = "engine" <=> pc \in {"FetchExecRead", "FetchExecWait"}
    /\ cmdMu = "consumer" <=> cpc \in {"ExecRead", "ExecWait"}

\* C17: an Exec call that finds no live session returns an error without
\* running its operation body (none started, none abandoned) and with cl.cmdMu
\* released, so that the next Exec call can lock it.
C17_NoSessionFailsAndUnlocks ==
    /\ [][(cpc = "ExecRead" /\ c = "nil" /\ cpc' # cpc) =>
             /\ cpc' \notin {"ExecWait", "Send"}
             /\ abandoned' = abandoned
             /\ cmdMu' = "free"]_vars
    /\ []CmdMuHeldInsideExec

C17_Witness ==
    /\ c = "nil" /\ cpc = "Recv" /\ cmdMu = "free"
    /\ calls["fetch"] = opStats["fetch"].Count + 1
    /\ abandoned = 0

\* C18: Connect with a live session returns nil and changes nothing of the
\* session; once Close() has been called closed stays set, every Connect
\* returns the closed error without dialing, and no step creates a session,
\* whatever the order of the calls of Connect, Close and reset.
C18_ConnectAfterCloseFails ==
    /\ [][closed => closed']_vars
    /\ [](closed => pc # "Dial" /\ partial = "none")
    /\ [][closed => c' \in {c, "nil"}]_vars
    /\ [][(pc = "Connect" /\ pc' # "Connect" /\ closed) =>
             (pc' = "Backoff" /\ c' = c)]_vars
    /\ [][(pc = "Connect" /\ pc' # "Connect" /\ ~closed /\ c # "nil") =>
             (pc' = "Status" /\ UNCHANGED <<c, connBroken, partial>>)]_vars

C18_Witness ==
    /\ closed /\ pc = "Backoff" /\ faults = 0 /\ c = "nil"

\* the steps of Connect's local connection: dial, optional StartTLS, Login
\* (Select ends the attempt), or its end
PhaseStep ==
    \/ partial = "none" /\ partial' \in {"dialed", "secured"}
    \/ partial = "dialed" /\ partial' \in {"secured", "authed"}
    \/ partial = "secured" /\ partial' = "authed"
    \/ partial' = "none"

\* C19: a Connect attempt that fails leaves the session absent and logs out
\* the connection it had dialed, if any; a connection under construction is
\* held by Connect alone (under cl.mu, session absent), goes through the
\* phases in order, and becomes the session only once logged in and selected.
C19_FailedConnectLeavesNoSession ==
    /\ [](teardown # "leak")
    /\ [](partial # "none" => (pc = "Dial" /\ c = "nil" /\ mu = "engine"))
    /\ [][partial' # partial => PhaseStep]_vars
    /\ [][(pc = "Dial" /\ pc' = "Backoff") =>
             /\ c' = "nil" /\ partial' = "none"
             /\ teardown' = IF partial = "none" THEN "none" ELSE "logout"]_vars
    /\ [][(c = "nil" /\ c' = "conn") =>
             (pc = "Dial" /\ partial = "authed" /\ pc' = "Status")]_vars

C19_Witness ==
    /\ pc = "Backoff" /\ c = "nil" /\ partial = "none" /\ teardown = "logout"
    /\ mu = "free" /\ ~closed

\* C20: the session is absent whenever the engine has been closed: Close()
\* of a connected engine leaves no session behind, so that a later Exec
\* fails with "no connection" instead of running on the logged-out connection.
C20_ClosedEngineHasNoSession ==
    /\ [](closed => c = "nil")
    /\ [][(closed /\ cpc = "ExecRead" /\ cpc' # cpc) => cpc' # "ExecWait"]_vars

\* C21: close() is idempotent: a second or later call of Close() leaves the
\* engine as the first call left it, and the live session is logged out at
\* most once however often Close() is called.
C21_CloseIsIdempotent ==
    /\ [](logouts <= 1)
    /\ [][(closed /\ DoClose) =>
             UNCHANGED <<c, closed, mu, connBroken, logouts>>]_vars

\* C22: status() called while no session is live returns an error to its
\* caller instead of crashing the engine, and on a live session it returns
\* the message count the server reports for the re-selected mailbox.
C22_StatusWithoutSessionReturnsError ==
    /\ [](pc # "Panicked")
    /\ [][(pc = "Status" /\ c = "nil" /\ pc' # pc) => pc' = "Top"]_vars
    /\ [][(pc = "StatusWire" /\ ~connBroken /\ pc' = "Top") =>
             baseline' = serverCount]_vars

\* C23: reset() makes the session absent and leaves the closed flag as it
\* was; on an already absent session it changes nothing; after it a Connect
\* on an engine that is not closed goes on to dial (it is not refused) and
\* the connection it builds becomes the new session.
C23_ResetKeepsClosedFlag ==
    /\ [][ApiReset => /\ c' = "nil"
                      /\ closed' = closed
                      /\ (c = "nil" => UNCHANGED vars)]_vars
    /\ [][(pc = "Connect" /\ pc' # pc /\ ~closed /\ c = "nil") =>
             pc' = "Dial"]_vars
    /\ []((pc = "Connect" /\ mu = "free") => ENABLED Connect)
    /\ []((pc = "Dial" /\ partial = "authed") => ENABLED ConnectOk)
    /\ [][(pc = "Dial" /\ partial = "authed" /\ pc' = "Status") =>
             (c' = "conn" /\ ~connBroken')]_vars

\* a broken session has been reset on an engine that is not closed, and the
\* Connect that follows is about to install its connection as the session
C23_Witness ==
    /\ c = "nil" /\ connBroken /\ ~closed
    /\ pc = "Dial" /\ partial = "authed"

\* the consumer is done with the event at hand and waits for the next one
ConsumerDone == cpc # "Recv" /\ cpc' = "Recv"

\* C24: the consumer calls EndProcess exactly once for every event it
\* receives: once at the end of each of its three paths (fetch or parse
\* failure after the retries, delivery failure, delivery), and never between
\* receiving an event and being done with it.
C24_ConsumerEndsEveryEvent ==
    /\ [][ConsumerDone =>
             (ends' = ends + 1 /\ cpc \in {"ExecRead", "ExecWait", "Posted"})]_vars
    /\ [][(consumerVars' # consumerVars /\ ~ConsumerDone) => ends' = ends]_vars
    /\ [][(cpc = "Recv" /\ cpc' # cpc) =>
             (cpc' = "Fetch" /\ Len(events') = Len(events) - 1)]_vars
    /\ [](cpc = "Recv" => (attempt = 0 /\ sendAttempt = 0 /\ resp = "none"))

\* two events received and ended: the fetch of one met no connection (the
\* failure path), the other was fetched and handed to the webhook
C24_Witness ==
    /\ cpc = "Recv" /\ ~ctxDone
    /\ begins = 2 /\ ends = 2 /\ activeFetches = 0
    /\ calls["fetch"] = 2
    /\ opStats["fetch"] = [Count |-> 1, Errors |-> 0]

\* C25: SendWithRetry makes at most RetryMax retries after its first attempt,
\* returns at the first attempt answered 2xx, and otherwise returns its error
\* after the last attempt; in both cases the consumer logs, calls EndProcess
\* and goes on with the next event: a failed delivery stops neither the
\* consumer nor IdleLoop.
C25_DeliveryIsRetriedUpToRetryMax ==
    /\ [](sendAttempt <= RetryMax)
    /\ [](resp # "none" <=> cpc = "Posted")
    /\ [][(cpc = "Posted" /\ cpc' # cpc) =>
             IF resp = "2xx" \/ sendAttempt = RetryMax
             THEN cpc' = "Recv" /\ ends' = ends + 1 /\ pc' = pc
             ELSE /\ cpc' = "Send" /\ sendAttempt' = sendAttempt + 1
                  /\ ends' = ends /\ pc' = pc]_vars
    /\ [](cpc = "Send" => ENABLED ConsumerPost)
    /\ [](cpc = "Posted" => ENABLED ConsumerSend)

\* the last allowed attempt has failed too
C25_Witness ==
    /\ cpc = "Posted" /\ resp = "fail" /\ sendAttempt = RetryMax /\ ~ctxDone

\* the positions of the parts of type ct in a message
PartsOfType(ct) == {i \in 1..Len(raw.parts) : raw.parts[i].ct = ct}

Min(S) == CHOOSE x \in S : \A y \in S : x <= y

\* C26: the delivered payload's attachment_count is the number of names in
\* its attachments list, and has_attachments is true exactly when that list
\* is not empty.
C26_AttachmentCountMatchesList ==
    payload # <<>> =>
        /\ payload[1].AttachmentCount = Len(payload[1].Attachments)
        /\ payload[1].HasAttachments <=> payload[1].Attachments # <<>>

\* C27: the body parsed from a multipart message that has a text/plain part
\* is the content of its first text/plain part, whether a text/html part
\* comes before or after it; the text derived from HTML is the body only
\* when the message has no text/plain part.
C27_FirstPlainPartIsTheBody ==
    (msg # <<>> /\ PartsOfType("text/plain") # {}) =>
        msg[1].Body = raw.parts[Min(PartsOfType("text/plain"))].text

\* the engine has closed stop and has not yet received from done
StopUnobserved == stopClosed /\ (idle = "running" \/ done # "empty")

\* IdleLoop or handleNewMessages is inside status() or Exec("fetch-uids")
EngineCommand ==
    pc \in {"Status", "StatusWire", "Fetch", "FetchExecRead", "FetchExecWait"}

\* C28: whenever IdleLoop stops the long-poll (growth notification, other
\* notification, poll tick or cancellation) it receives from done before it
\* calls status() or Exec: closing stop leads to a receive from done and to
\* nothing else, and in no state has IdleLoop closed stop, not yet received
\* the termination and started a command.
C28_TerminationObservedBeforeCommand ==
    /\ [](StopUnobserved => ~EngineCommand)
    /\ [][(~stopClosed /\ stopClosed') =>
             pc' \in {"AwaitDone", "ExitAwaitDone", "CancelAwait"}]_vars
    /\ [][(pc \in {"AwaitDone", "ExitAwaitDone", "CancelAwait"} /\ pc' # pc) =>
             (done # "empty" /\ done' = "empty" /\ idle = "none")]_vars
    /\ [][(~EngineCommand /\ EngineCommand') =>
             (pc = "Dial" \/ (pc \in {"AwaitDone", "ExitAwaitDone"} /\ done = "nil"))]_vars

\* the poll tick stopped the long-poll, its termination has been received,
\* and status() is about to be called
C28_Witness ==
    /\ pc = "Status" /\ site = "tick"
    /\ stopClosed /\ idle = "none" /\ done = "empty"

\* a fetch of the consumer is running: inside Exec("fetch"), or left behind
\* by an Exec("fetch") that timed out (no fetch-uids has failed, so every
\* abandoned body is a fetch of the consumer)
ConsumerFetchRunning ==
    \/ cpc = "ExecWait"
    \/ abandoned > 0 /\ opStats["fetch-uids"].Errors = 0

\* C29: events are emitted inside a detection cycle only, every cycle ends in
\* drain() whatever its trigger, and the next long-poll starts only after
\* drain() has ended with the count at zero, its deadline passed or the
\* context cancelled; so when drain() ends with the count at zero, and when a
\* long-poll starts with the count at zero, no fetch of the consumer for an
\* emitted event is still running.
C29_DrainBeforeNextLongPoll ==
    /\ [][sent' # sent => (pc = "Push" /\ pc' = "Emit")]_vars
    /\ [][(pc \in {"Emit", "Push"} /\ pc' \notin {"Emit", "Push"}) =>
             pc' = "Drain"]_vars
    /\ [][(pc = "Drain" /\ pc' # "Drain") =>
             /\ pc' = "IdleStart"
             /\ activeFetches = 0 \/ drainLeft = 0 \/ ctxDone]_vars
    /\ [][(pc = "Drain" /\ pc' = "IdleStart" /\ activeFetches = 0 /\ ~ctxDone) =>
             ~ConsumerFetchRunning]_vars
    /\ [][(pc = "IdleStart" /\ pc' = "Select" /\ activeFetches = 0) =>
             ~ConsumerFetchRunning]_vars

\* C30: a keepalive goroutine lives only while its long-poll round is active:
\* at most one is alive at any time, none outlives its round, and a NOOP of
\* a keepalive starts only during a round.
C30_OneKeepalivePerLongPoll ==
    /\ [](keepalives <= 1)
    /\ [](keepalives = 1 => (pc \in {"Select", "ExitIdle"} /\ ~stopClosed))
    /\ [][(~noop /\ noop') => (pc \in {"Select", "ExitIdle"} /\ ~stopClosed)]_vars

\* C31: every protocol command on a live session other than the long-poll
\* itself (the SELECT of status(), the NOOP of a keepalive, the range fetch
\* and the consumer's body fetch) is issued inside Exec: while it is on the
\* wire its issuer holds cl.cmdMu.
C31_CommandsGoThroughExec ==
    /\ pc = "StatusWire" => cmdMu = "engine"
    /\ noop => cmdMu = "keepalive"
    /\ pc = "FetchExecWait" => cmdMu = "engine"
    /\ cpc = "ExecWait" => cmdMu = "consumer"

\* C32: cl.mu is never held while a wire operation (dial, login, select,
\* status, no-op) is in progress, so an Exec that is about to read cl.c
\* under cl.mu never finds it held by a unit of work that is on the wire.
C32_SessionMutexNotHeldOnWire ==
    /\ pc \in {"Dial", "StatusWire"} => mu = "free"
    /\ noop => mu = "free"
    /\ (cpc = "ExecRead" \/ pc = "FetchExecRead") => mu = "free"

\* positions of a detection cycle: handleNewMessages from its exit of the
\* long-poll to the end of its emit loop
CyclePcs ==
    {"ExitIdle", "ExitAwaitDone", "Fetch", "FetchExecRead", "FetchExecWait",
     "Emit", "Push"}

\* the step is the status() right after Connect, which opens a session
OpensSession == pc = "StatusWire" /\ site = "connect"

\* C33: within one session baseline never decreases; it is changed only by a
\* step of the engine loop (the status after Connect, or the end of a
\* detection cycle, which sets it to the observed count); and a detection
\* cycle is under way only with an observed count strictly above baseline.
C33_BaselineMonotoneWithinSession ==
    /\ [](pc \in CyclePcs => newTotal > baseline)
    /\ [][~OpensSession => baseline' >= baseline]_vars
    /\ [][baseline' # baseline
            => \/ OpensSession /\ pc' = "IdleStart"
               \/ /\ pc \in {"FetchExecRead", "FetchExecWait", "Emit"}
                  /\ pc' = "Drain"
                  /\ baseline' = newTotal]_vars

\* a cycle that emitted its range has just advanced baseline by two
C33_Witness ==
    /\ pc = "Drain" /\ baseline = newTotal
    /\ Len(CycleSent) = 2 /\ baseline = InitMessages + 2

\* C34: the status() that opens a session sets baseline to the count the
\* server reports at that moment, and every Event pushed carries an
\* identifier above the baseline of its cycle: whatever arrived before the
\* session was opened (count at or below the fresh baseline) is never emitted.
C34_ReconnectTakesFreshBaseline ==
    /\ [][(OpensSession /\ pc' = "IdleStart") => baseline' = serverCount]_vars
    /\ [][sent' # sent
            => /\ pc = "Push" /\ newTotal > baseline
               /\ sent' = Append(sent, Head(ch))
               /\ \E q \in (baseline + 1)..newTotal : Head(ch) = UidOf(q)]_vars

\* a second session opened with baseline 3 after a first one that emitted
\* message 2 only: message 3, which no cycle of the first session covered,
\* lies at the fresh baseline and has produced no Event
C34_Witness ==
    /\ pc = "IdleStart" /\ ~ctxDone /\ c = "conn" /\ ~connBroken
    /\ faults = 1 /\ opStats["fetch-uids"].Errors = 0
    /\ sent = <<UidOf(2)>> /\ baseline = 3 /\ serverCount = 3

\* C35: every step of the engine that ends a failed status() forgets the
\* session (reset) and leaves the engine in a sleep (the two seconds before
\* RECONNECT or the backoff of the connect loop), never at the top of the
\* loop where Connect is retried at once.
C35_StatusFailureSleepsBeforeConnect ==
    [][(pc = "StatusWire" /\ connBroken /\ pc' # pc)
          => c' = "nil" /\ pc' \in {"Reconnect", "Backoff"}]_vars

\* C36: the consumer makes at most maxFetchRetry + 1 = 3 fetch attempts for an
\* event; it tries again only after an error of an operation that ran (never
\* after "no connection", which ends the event at once) and only below the
\* bound; a timeout of Exec is tried again below the bound; and the step that
\* gives up ends the event's processing (EndProcess) without putting the
\* identifier back on the channel and without touching baseline.
C36_ConsumerFetchRetries ==
    /\ [](attempt <= maxFetchRetry)
    /\ [][(cpc \in {"ExecRead", "ExecWait"} /\ cpc' = "Fetch")
            => /\ cpc = "ExecWait"
               /\ attempt < maxFetchRetry /\ attempt' = attempt + 1]_vars
    /\ [][(cpc = "ExecWait" /\ abandoned' = abandoned + 1
              /\ attempt < maxFetchRetry) => cpc' = "Fetch"]_vars
    /\ [][(cpc \in {"ExecRead", "ExecWait"} /\ cpc' = "Recv")
            => /\ events' = events /\ sent' = sent
               /\ baseline' = baseline
               /\ activeFetches' = EndProcess(activeFetches)]_vars

\* the third attempt for an event is on the wire of a dead connection
C36_Witness ==
    cpc = "ExecWait" /\ attempt = maxFetchRetry /\ connBroken

\* C37: every close(stop) of the engine (in the select loop or in
\* handleNewMessages) finds the stop channel of its round still open, and the
\* engine never waits on done after the termination of the round has been
\* received.
C37_StopClosedAtMostOnce ==
    /\ [][(pc \in {"Select", "ExitIdle"}
              /\ pc' \in {"AwaitDone", "ExitAwaitDone", "CancelAwait", "Panicked"})
            => ~stopClosed]_vars
    /\ [](pc \in {"AwaitDone", "ExitAwaitDone", "CancelAwait"}
            => (idle = "running" \/ done # "empty"))

\* the holder of cl.mu can complete the operation it holds the mutex for
MuHolderCanFinish ==
    /\ mu = "keepalive" => ENABLED KeepaliveNoopDone
    /\ (mu = "engine" /\ pc = "StatusWire")
          => ENABLED (StatusAfterConnect \/ StatusAfterStop)
    /\ (mu = "engine" /\ pc = "Dial")
          => ENABLED (DialOk \/ StartTLSOk \/ LoginOk \/ ConnectOk)

\* C38: cl.cmdMu is taken only by a goroutine that does not hold cl.mu, and
\* cl.mu is held only for an operation that needs no other mutex to complete
\* (Connect, status(), a keepalive NOOP, or the read of cl.c inside Exec); the
\* engine holds neither mutex while it pushes an event or polls in drain. So
\* no goroutine that holds cl.mu waits for cl.cmdMu: the order is acyclic.
C38_LockOrderAcyclic ==
    /\ [][(cmdMu = "free" /\ cmdMu' # "free") => (mu # cmdMu' /\ mu' = mu)]_vars
    /\ [](mu = "engine" => pc \in {"Dial", "StatusWire"})
    /\ [](mu = "keepalive" => noop)
    /\ [](MuHolderCanFinish)
    /\ [](pc \in {"Emit", "Push", "Drain"} => (cmdMu # "engine" /\ mu # "engine"))
    /\ [](cmdMu = "engine" => pc \in {"FetchExecRead", "FetchExecWait"})
    /\ [](cmdMu = "consumer" => cpc \in {"ExecRead", "ExecWait"})

\* the consumer is inside Exec with cl.cmdMu held, about to take cl.mu, while
\* the engine polls in drain for the event in process
C38_Witness ==
    /\ cpc = "ExecRead" /\ cmdMu = "consumer"
    /\ pc = "Drain" /\ activeFetches > 0 /\ drainLeft > 0

\* C39: the step that handles an observation whose count is not above
\* baseline (a MailboxUpdate read in the select loop, or the result of
\* status() after a message notification or a poll tick), the mailbox having
\* shrunk or not, pushes no Event and leaves baseline and the processing
\* counter as they were; within a session baseline is never lowered.
C39_NoGrowthObservationChangesNothing ==
    /\ [][(/\ pc = "Select" /\ updates # <<>>
           /\ Head(updates).kind = "mailbox"
           /\ Head(updates).messages <= baseline
           /\ updates' = Tail(updates))
            => /\ pc' = "Select" /\ stopClosed' = stopClosed
               /\ UNCHANGED <<baseline, activeFetches, events, sent, resolved>>]_vars
    /\ [][(/\ pc = "StatusWire" /\ site \in {"message", "tick"}
           /\ ~connBroken /\ serverCount <= baseline
           /\ pc' # pc)
            => /\ pc' = "IdleStart"
               /\ UNCHANGED <<baseline, activeFetches, events, sent, resolved>>]_vars
    /\ [][~OpensSession => baseline' >= baseline]_vars

\* on a poll tick status() is on the wire of a healthy session whose mailbox
\* has shrunk below baseline
C39_Witness ==
    /\ pc = "StatusWire" /\ site = "tick" /\ ~connBroken
    /\ serverCount < baseline

\* the identifiers of s are strictly increasing (so none occurs twice)
StrictlyIncreasing(s) == \A i, j \in DOMAIN s : i < j => s[i] < s[j]

\* C40: no position is fetched twice: a fetch resolves exactly the positions
\* of (baseline, observed], every cycle that ends sets baseline to its
\* observed count, so that the next range starts above it, and the
\* identifiers resolved by successive cycles, like those pushed, are strictly
\* increasing, stale or repeated notifications included.
C40_RangesDisjointAndIncreasing ==
    /\ [](StrictlyIncreasing(resolved) /\ StrictlyIncreasing(sent))
    /\ [][resolved' # resolved
            => /\ pc = "FetchExecWait" /\ newTotal > baseline
               /\ resolved' = resolved \o RangeIds(baseline, newTotal)]_vars
    /\ [][(pc \in {"FetchExecRead", "FetchExecWait", "Emit"} /\ pc' = "Drain")
            => baseline' = newTotal]_vars

\* one session has run two detection cycles, for message 2 and for message 3,
\* and a notification with the count 3, already handled, is waiting
C40_Witness ==
    /\ pc = "Select" /\ faults = 0 /\ baseline = 3
    /\ resolved = <<UidOf(2), UidOf(3)>> /\ cycleStart = 1
    /\ updates = <<MailboxUpdate(3)>>

====
